---- MODULE Spec2Model ----
(***************************************************************************)
(* Collection orchestration of the crisis monitoring backend:              *)
(*   CollectorManager   (services/collectors/collector_manager.py)         *)
(*   WebScraperCollector session handling (web_scraper_collector.py)       *)
(*   CollectionService  (services/collection_service.py)                   *)
(*   startup_event / get_events (src/main.py)                              *)
(*                                                                         *)
(* The program runs on one asyncio event loop: a coroutine runs without    *)
(* interruption until it reaches an await that really suspends.  One       *)
(* action of the model is one such run, from a resumption to the next      *)
(* suspension.  The suspension points are: the HTTP fetch of a static      *)
(* source (session.get), the closing of the aiohttp session               *)
(* (session.close), asyncio.sleep, and awaiting a task.                    *)
(* _get_dynamic_content (Selenium) is an ordinary function called from the *)
(* coroutine: while it runs, the thread of the event loop is inside it and *)
(* no other coroutine or request handler runs; only the clock moves.       *)
(* asyncio.CancelledError derives from BaseException, so none of the       *)
(* "except Exception" handlers catches a cancellation.                     *)
(***************************************************************************)
EXTENDS Integers, Sequences, FiniteSets, TLC

\* ---------------------------------------------------------------- bounds
MaxCollectors == 2      \* collectors the registry may come to hold
MaxCalls == 2           \* calls made from outside after construction
MaxEvents == 1          \* events one collect() pass may return
MaxTicks == 1           \* clock ticks of TickSeconds each
MaxWords == 2           \* fragments a title or text is made of
MaxArticles == 2        \* article candidates a page holds

\* ------------------------------------------------------ program constants
UPDATE_INTERVAL_SECONDS == 60
FALLBACK_SECONDS == 60
NoTime == -1            \* last_run = None

TickSeconds == UPDATE_INTERVAL_SECONDS
MaxTime == MaxTicks * TickSeconds

CollectorIds == 1..MaxCollectors
\* The asyncio tasks: the loop task the service creates and keeps in
\* _collection_task, the loop task startup_event creates itself, and the task
\* serving a GET /events request.
TaskIds == {"svc", "main", "req"}

VARIABLES
    collectors,         \* CollectorManager.collectors: sequence of collector ids
    is_running,         \* CollectorManager.is_running
    last_run,           \* CollectorManager.last_run (NoTime = None)
    collection_count,   \* CollectorManager.collection_count
    session,            \* WebScraperCollector.session per collector:
                        \*   "none" (None), "open", "closed" (a closed ClientSession object)
    svc_running,        \* CollectionService._running
    svc_task,           \* CollectionService._collection_task is not None
    tasks,              \* the asyncio tasks: loops and /events requests
    stop,               \* the CollectionService.stop_collection call in flight
    app,                \* "init" before startup_event, "starting", "up", "down" after
                        \*   shutdown_event ("failed": startup_event raised)
    now,                \* the clock, in seconds
    calls,              \* calls made from outside so far
    stopSince,          \* history: a stop() completed and no loop was started since
    env,                \* what the surroundings of the program may do in this run
    validation,         \* history: the last initialize_collectors call
    starts,             \* the start_collection calls suspended in their awaits, and
                        \*   (history) the loop tasks start_collection has created
                        \*   since the service last let go of its task, and whether
                        \*   a call has found the task held since
    registration,       \* history: the last register_collector call, its argument
                        \*   and what it raised
    fn                  \* a call of one of the text functions: arguments and result

vars == <<fn, env, starts, validation, registration, collectors, is_running, last_run, collection_count, session, svc_running,
          svc_task, tasks, stop, app, now, calls, stopSince>>

\* An event is identified by the collector that produced it and its position
\* in that collector's output.
EventsOf(c, n) == [k \in 1..n |-> <<c, k>>]

\* What the outside world decides during one step: whether creating the
\* aiohttp session fails, and how many relevant articles a pass finds.
Inputs == [initFails : [CollectorIds -> BOOLEAN], yield : [CollectorIds -> 0..MaxEvents],
           escape : BOOLEAN]

\* The surroundings of a run.  escape: an exception may be raised in the "try"
\* of the loop body outside collect_all (by its logging calls); no code of the
\* program raises there, so it happens only in runs with that fault.
\* closeRaises: ClientSession.close() may raise.
\* finds: the most events the pages of one pass hold.
\* validate: what validate_credentials of each collector does; that of a
\* WebScraperCollector returns True.
\* awaits: the awaits of start_collection may suspend (the database is not
\* connected yet, or validate_credentials of a registered collector waits);
\* with the database connected and WebScraperCollectors only, none does.
\* calls: how many calls are made from outside.
ValidateOutcomes == {"true", "false", "raise"}
Environments == [escape : BOOLEAN, closeRaises : BOOLEAN, finds : 0..MaxEvents,
                 validate : [CollectorIds -> ValidateOutcomes], awaits : BOOLEAN,
                 calls : 1..(MaxCalls + 1)]
NoFaults == [escape |-> FALSE, closeRaises |-> FALSE, finds |-> MaxEvents,
             validate |-> [c \in CollectorIds |-> "true"], awaits |-> FALSE,
             calls |-> MaxCalls]

\* Whether an awaited session.close() raises.
CloseOutcomes == IF env.closeRaises THEN BOOLEAN ELSE {FALSE}

\* The inputs of a step that runs the i-th collector and those after it: the
\* others are not consulted, and are fixed.
InputsFrom(i) ==
    {inp \in Inputs :
        /\ \A c \in CollectorIds :
              /\ (c < i \/ c > Len(collectors)) => (~inp.initFails[c] /\ inp.yield[c] = 0)
              /\ inp.yield[c] <= env.finds
        /\ inp.escape => env.escape}

\* The inputs of such a step of task t: only a loop has the loop body's fault.
InputsOf(t, i) == {inp \in InputsFrom(i) : inp.escape => t # "req"}

NoTask ==
    [kind |-> "none", pc |-> "none", cidx |-> 0, all_events |-> <<>>,
     wakeAt |-> 0, cancelReq |-> FALSE,
     retry |-> FALSE,   \* history: the cycle is the one begun after the fallback wait
     inserted |-> <<>>, \* history: the documents the task has handed to insert_many
     \* history of the current / last collect_all call of the task
     rets |-> <<>>, nreg |-> 0, count0 |-> 0]

\* No stop_collection call of the service is in flight.  visited, raised and
\* failed are the history of the manager's cleanup() of the last call: the
\* collectors whose cleanup() it called with the session each had, those whose
\* cleanup() raised, and whether cleanup() itself raised.
NoStop == [pc |-> "idle", idx |-> 0, visited |-> <<>>, raised |-> {}, failed |-> FALSE]

Finished == {"done", "failed", "cancelled", "aborted"}
InCycle == {"fetch", "render", "close"}
Waiting == {"sleep", "backoff"}

\* The thread of the event loop is not inside a blocking call.
EventLoopFree == \A t \in TaskIds : tasks[t].pc # "render"

\* No task has been created and not yet run: the event loop runs the first
\* step of a task it was given before it handles any event that comes later.
NoneReady == \A t \in TaskIds : tasks[t].pc # "ready"

\* The part of the state a running coroutine reads and writes.
World(t) == [tk |-> tasks[t], session |-> session, count |-> collection_count,
             last |-> last_run]

Commit(t, w) ==
    /\ tasks' = [tasks EXCEPT ![t] = w.tk]
    /\ session' = w.session
    /\ collection_count' = w.count
    /\ last_run' = w.last

RECURSIVE CollectAllFrom(_, _, _)

\* An "except" that lets the collector's error out of collect_all.
OnCollectErrorRaise(w, i, inp) ==
    [w EXCEPT !.tk.pc = "raised",
              !.tk.rets = Append(@, [c |-> collectors[i], ok |-> FALSE, events |-> <<>>])]

\* collect_all, "except Exception" of the loop over the collectors: the error
\* is logged and the loop goes on with the next collector.
OnCollectError(w, i, inp) ==
    CollectAllFrom([w EXCEPT !.tk.rets =
                                 Append(@, [c |-> collectors[i], ok |-> FALSE, events |-> <<>>])],
                   i + 1, inp)

\* collect_all, after "events = await collector.collect()" returned the events
\* of this pass (how many there are is decided by the pages fetched).
AfterCollect(w, i, inp) ==
    LET evs == EventsOf(collectors[i], inp.yield[collectors[i]])
    IN  CollectAllFrom([w EXCEPT !.tk.all_events = @ \o evs,
                                 !.tk.rets = Append(@, [c |-> collectors[i], ok |-> TRUE,
                                                        events |-> evs]),
                                 !.count = @ + Len(evs),
                                 !.last = now],
                       i + 1, inp)

\* collect_all, "return all_events".
CollectAllReturn(w) ==
    [w EXCEPT !.tk.pc = "returned", !.tk.cidx = 0, !.tk.count0 = 0,
              !.tk.nreg = Len(collectors)]

\* WebScraperCollector.collect from its start to its first suspension, for the
\* i-th registered collector.
CollectBegin(w, i, inp) ==
    LET c == collectors[i]
        w1 == [w EXCEPT !.tk.cidx = i]
    IN  CASE w.session[c] = "none" ->
               \* _init_session: ClientSession() may raise, and the error is re-raised
               IF inp.initFails[c]
               THEN OnCollectError(w1, i, inp)
               ELSE [w1 EXCEPT !.session[c] = "open", !.tk.pc = "fetch"]
          [] w.session[c] = "open" ->
               \* a session opened by an overlapping collect() is used as it is
               [w1 EXCEPT !.tk.pc = "fetch"]
          [] w.session[c] = "closed" ->
               \* session.get on a closed session raises at once (caught in
               \* _fetch_page): the script-rendered source is next
               [w1 EXCEPT !.tk.pc = "render"]

\* collect_all from the i-th collector on, up to the next suspension.
CollectAllFrom(w, i, inp) ==
    IF i > Len(collectors) THEN CollectAllReturn(w) ELSE CollectBegin(w, i, inp)

\* A collect_all that counts the events of each call from zero.
CollectAllCountsAnew(w, inp) ==
    CollectAllFrom([w EXCEPT !.tk.all_events = <<>>, !.tk.rets = <<>>, !.tk.nreg = 0,
                             !.tk.wakeAt = 0, !.tk.count0 = 0, !.count = 0],
                   1, inp)

\* collect_all from its first line.
CollectAll(w, inp) ==
    CollectAllFrom([w EXCEPT !.tk.all_events = <<>>, !.tk.rets = <<>>, !.tk.nreg = 0,
                             !.tk.wakeAt = 0, !.tk.count0 = w.count],
                   1, inp)

\* A loop task in asyncio.sleep until "at": the events of the cycle are not
\* used again.
Sleeping(at) == [NoTask EXCEPT !.kind = "loop", !.pc = "sleep", !.wakeAt = at]

\* A loop task in the asyncio.sleep of the loop's "except Exception".
BackingOff(at) == [NoTask EXCEPT !.kind = "loop", !.pc = "backoff", !.wakeAt = at]

\* A loop whose "except Exception" ends it instead of waiting and retrying.
LoopAfterNoRetry(w, inp) ==
    CASE w.tk.pc = "returned" ->
           IF inp.escape
           THEN [w EXCEPT !.tk = [NoTask EXCEPT !.kind = "loop", !.pc = "failed"]]
           ELSE [w EXCEPT !.tk = Sleeping(now + UPDATE_INTERVAL_SECONDS)]
      [] w.tk.pc = "raised" ->
           [w EXCEPT !.tk = [NoTask EXCEPT !.kind = "loop", !.pc = "failed"]]
      [] OTHER -> w

\* start_collection_loop, the body of "while self.is_running" after collect_all.
LoopAfter(w, inp) ==
    CASE w.tk.pc = "returned" ->
           \* the rest of the "try": the number of events is logged, the events
           \* are let go, then the regular wait
           IF inp.escape
           THEN [w EXCEPT !.tk = BackingOff(now + FALLBACK_SECONDS)]
           ELSE [w EXCEPT !.tk = Sleeping(now + UPDATE_INTERVAL_SECONDS)]
      [] w.tk.pc = "raised" ->
           [w EXCEPT !.tk = BackingOff(now + FALLBACK_SECONDS)]
      [] OTHER -> w

\* collect_events after collect_all: when there are events they are handed to
\* insert_many in one batch, and returned whether or not the insertion fails;
\* an error of collect_all would be logged and re-raised.  Nothing is handed
\* over when there is no event.
RequestAfter(w) ==
    CASE w.tk.pc = "returned" -> [w EXCEPT !.tk.pc = "done", !.tk.inserted = w.tk.all_events]
      [] w.tk.pc = "raised" -> [w EXCEPT !.tk.pc = "failed"]
      [] OTHER -> w

After(w, inp) == IF w.tk.kind = "loop" THEN LoopAfter(w, inp) ELSE RequestAfter(w)

\* A task that has ended: its locals are gone.
Ended(tk, how) == [NoTask EXCEPT !.kind = tk.kind, !.pc = how]

NewLoop == [NoTask EXCEPT !.kind = "loop", !.pc = "ready"]

\* No initialize_collectors call has been made.  visited: the collectors whose
\* validate_credentials was called; raised: the call itself raised.
NoValidation == [ran |-> FALSE, visited |-> <<>>, all_valid |-> TRUE, raised |-> FALSE]

RECURSIVE ValidateFrom(_, _)

\* An "except" that lets the collector's error out of initialize_collectors.
OnValidateErrorRaise(st, i) == [st EXCEPT !.all_valid = FALSE, !.raised = TRUE]

\* initialize_collectors, "except Exception": logged, all_valid = False, and
\* the loop goes on with the next collector.
OnValidateError(st, i) == ValidateFrom([st EXCEPT !.all_valid = FALSE], i + 1)

\* initialize_collectors from the i-th collector on.
ValidateFrom(st, i) ==
    IF i > Len(collectors) THEN st
    ELSE LET c == collectors[i]
             st1 == [st EXCEPT !.visited = Append(@, c)]
         IN  CASE env.validate[c] = "true" -> ValidateFrom(st1, i + 1)
               [] env.validate[c] = "false" ->
                    ValidateFrom([st1 EXCEPT !.all_valid = FALSE], i + 1)
               [] OTHER -> OnValidateError(st1, i)

\* initialize_collectors.
InitializeCollectors == ValidateFrom([NoValidation EXCEPT !.ran = TRUE], 1)

\* An object that is not a collector (a collector is its id).
NotACollector == 0

\* What register_collector may be called with when the list is "list": a
\* collector not registered yet (while there is one), or an object of another
\* class.
Registrable(list) == ({Len(list) + 1} \cap CollectorIds) \cup {NotACollector}

\* isinstance(collector, BaseDataCollector).
IsBaseDataCollector(collector) == collector \in CollectorIds

\* No register_collector call has been made.
NoRegistration == [collector |-> NotACollector, raised |-> "none"]

\* A register_collector that puts the collector at the head of the list.
register_collector_first(list, collector) ==
    IF ~IsBaseDataCollector(collector)
    THEN [collectors |-> list, raised |-> "ValueError"]
    ELSE [collectors |-> <<collector>> \o list, raised |-> "none"]

\* register_collector: ValueError unless the argument is a BaseDataCollector,
\* and then it is appended to self.collectors.
register_collector(list, collector) ==
    IF ~IsBaseDataCollector(collector)
    THEN [collectors |-> list, raised |-> "ValueError"]
    ELSE [collectors |-> Append(list, collector), raised |-> "none"]

\* No start_collection call is suspended, and the service has created no task.
NoStarts == [pending |-> 0, created |-> 0, held |-> FALSE]

\* ---------------------------------------------------------- text functions
\* A string is the sequence of its characters.

UpperLetters ==
    <<"A", "B", "C", "D", "E", "F", "G", "H", "I", "J", "K", "L", "M",
      "N", "O", "P", "Q", "R", "S", "T", "U", "V", "W", "X", "Y", "Z">>
LowerLetters ==
    <<"a", "b", "c", "d", "e", "f", "g", "h", "i", "j", "k", "l", "m",
      "n", "o", "p", "q", "r", "s", "t", "u", "v", "w", "x", "y", "z">>

\* str.lower() of one character.
LowerChar(ch) ==
    IF \E k \in DOMAIN UpperLetters : UpperLetters[k] = ch
    THEN LowerLetters[CHOOSE k \in DOMAIN UpperLetters : UpperLetters[k] = ch]
    ELSE ch

\* str.lower().
ToLower(str) == [k \in 1..Len(str) |-> LowerChar(str[k])]

\* "word in text" of two strings: word is a substring of text.
Contains(str, word) ==
    \E k \in 0..(Len(str) - Len(word)) : SubSeq(str, k + 1, k + Len(word)) = word

\* any(word in lower_title for word in words).
AnyIn(words, lower_title) == \E word \in words : Contains(lower_title, word)

\* The word lists of _extract_crisis_type.
EarthquakeWords ==
    {<<"e", "a", "r", "t", "h", "q", "u", "a", "k", "e">>,
     <<"t", "s", "u", "n", "a", "m", "i">>,
     <<"v", "o", "l", "c", "a", "n", "o">>,
     <<"s", "e", "i", "s", "m", "i", "c">>}
FloodWords ==
    {<<"f", "l", "o", "o", "d">>,
     <<"h", "u", "r", "r", "i", "c", "a", "n", "e">>,
     <<"s", "t", "o", "r", "m">>,
     <<"t", "o", "r", "n", "a", "d", "o">>}
FireWords ==
    {<<"f", "i", "r", "e">>,
     <<"w", "i", "l", "d", "f", "i", "r", "e">>,
     <<"b", "l", "a", "z", "e">>}
ViolenceWords ==
    {<<"w", "a", "r">>,
     <<"c", "o", "n", "f", "l", "i", "c", "t">>,
     <<"a", "t", "t", "a", "c", "k">>,
     <<"v", "i", "o", "l", "e", "n", "c", "e">>,
     <<"c", "r", "i", "s", "i", "s">>}
DiseaseWords ==
    {<<"e", "p", "i", "d", "e", "m", "i", "c">>,
     <<"p", "a", "n", "d", "e", "m", "i", "c">>,
     <<"o", "u", "t", "b", "r", "e", "a", "k">>,
     <<"d", "i", "s", "e", "a", "s", "e">>,
     <<"i", "n", "f", "e", "c", "t", "i", "o", "n">>}
InfrastructureWords ==
    {<<"c", "o", "l", "l", "a", "p", "s", "e">>,
     <<"i", "n", "f", "r", "a", "s", "t", "r", "u", "c", "t", "u", "r", "e">>,
     <<"p", "o", "w", "e", "r", " ", "o", "u", "t", "a", "g", "e">>,
     <<"b", "l", "a", "c", "k", "o", "u", "t">>}
ProtestWords ==
    {<<"p", "r", "o", "t", "e", "s", "t">>,
     <<"d", "e", "m", "o", "n", "s", "t", "r", "a", "t", "i", "o", "n">>,
     <<"r", "i", "o", "t">>}
AccidentWords ==
    {<<"a", "c", "c", "i", "d", "e", "n", "t">>,
     <<"e", "x", "p", "l", "o", "s", "i", "o", "n">>,
     <<"s", "p", "i", "l", "l">>,
     <<"l", "e", "a", "k">>}

\* models/enums.py, EventType.
EventType ==
    {"EARTHQUAKE", "FLOOD", "FIRE", "VIOLENCE", "DISEASE_OUTBREAK",
     "INFRASTRUCTURE_FAILURE", "PROTEST", "INDUSTRIAL_ACCIDENT", "OTHER"}

\* An _extract_crisis_type that asks for the words of violence before those of
\* flood.
extract_crisis_type_reordered(title) ==
    LET lower_title == ToLower(title)
    IN  IF AnyIn(EarthquakeWords, lower_title) THEN "EARTHQUAKE"
        ELSE IF AnyIn(ViolenceWords, lower_title) THEN "VIOLENCE"
        ELSE IF AnyIn(FloodWords, lower_title) THEN "FLOOD"
        ELSE IF AnyIn(FireWords, lower_title) THEN "FIRE"
        ELSE IF AnyIn(DiseaseWords, lower_title) THEN "DISEASE_OUTBREAK"
        ELSE IF AnyIn(InfrastructureWords, lower_title) THEN "INFRASTRUCTURE_FAILURE"
        ELSE IF AnyIn(ProtestWords, lower_title) THEN "PROTEST"
        ELSE IF AnyIn(AccidentWords, lower_title) THEN "INDUSTRIAL_ACCIDENT"
        ELSE "OTHER"

\* WebScraperCollector._extract_crisis_type.
extract_crisis_type(title) ==
    LET lower_title == ToLower(title)
    IN  IF AnyIn(EarthquakeWords, lower_title) THEN "EARTHQUAKE"
        ELSE IF AnyIn(FloodWords, lower_title) THEN "FLOOD"
        ELSE IF AnyIn(FireWords, lower_title) THEN "FIRE"
        ELSE IF AnyIn(ViolenceWords, lower_title) THEN "VIOLENCE"
        ELSE IF AnyIn(DiseaseWords, lower_title) THEN "DISEASE_OUTBREAK"
        ELSE IF AnyIn(InfrastructureWords, lower_title) THEN "INFRASTRUCTURE_FAILURE"
        ELSE IF AnyIn(ProtestWords, lower_title) THEN "PROTEST"
        ELSE IF AnyIn(AccidentWords, lower_title) THEN "INDUSTRIAL_ACCIDENT"
        ELSE "OTHER"

\* tag.replace('#', '').
StripHash(tag) == SelectSeq(tag, LAMBDA ch : ch # "#")

\* BaseDataCollector._flatten_keywords over a configuration: the keywords of
\* every category and the hashtags without '#', duplicates removed.
flatten_keywords(crisis_keywords, crisis_hashtags) ==
    (UNION {crisis_keywords[cat] : cat \in DOMAIN crisis_keywords})
        \cup {StripHash(tag) : tag \in crisis_hashtags}

\* An is_relevant_content that looks for the keywords as they are written.
is_relevant_content_as_written(keywords, text) ==
    IF text = <<>> THEN FALSE
    ELSE \E keyword \in keywords : Contains(ToLower(text), keyword)

\* BaseDataCollector.is_relevant_content, self.keywords being keywords.
is_relevant_content(keywords, text) ==
    IF text = <<>> THEN FALSE
    ELSE \E keyword \in keywords : Contains(ToLower(text), ToLower(keyword))

\* config/data_collection_config.py: the keywords by category and the hashtags.
CRISIS_KEYWORDS ==
    [natural_disaster |->
        {<<"e", "a", "r", "t", "h", "q", "u", "a", "k", "e">>,
         <<"f", "l", "o", "o", "d">>,
         <<"h", "u", "r", "r", "i", "c", "a", "n", "e">>,
         <<"t", "s", "u", "n", "a", "m", "i">>,
         <<"t", "o", "r", "n", "a", "d", "o">>,
         <<"w", "i", "l", "d", "f", "i", "r", "e">>,
         <<"l", "a", "n", "d", "s", "l", "i", "d", "e">>,
         <<"v", "o", "l", "c", "a", "n", "i", "c", " ", "e", "r", "u", "p", "t", "i", "o", "n">>,
         <<"s", "e", "v", "e", "r", "e", " ", "s", "t", "o", "r", "m">>,
         <<"f", "l", "a", "s", "h", " ", "f", "l", "o", "o", "d">>,
         <<"d", "r", "o", "u", "g", "h", "t">>,
         <<"a", "v", "a", "l", "a", "n", "c", "h", "e">>},
     human_conflict |->
        {<<"b", "o", "m", "b", "i", "n", "g">>,
         <<"s", "h", "o", "o", "t", "i", "n", "g">>,
         <<"e", "x", "p", "l", "o", "s", "i", "o", "n">>,
         <<"a", "t", "t", "a", "c", "k">>,
         <<"t", "e", "r", "r", "o", "r", "i", "s", "m">>,
         <<"h", "o", "s", "t", "a", "g", "e">>,
         <<"r", "i", "o", "t">>,
         <<"a", "r", "m", "e", "d", " ", "c", "o", "n", "f", "l", "i", "c", "t">>,
         <<"v", "i", "o", "l", "e", "n", "c", "e">>,
         <<"m", "a", "s", "s", " ", "s", "h", "o", "o", "t", "i", "n", "g">>,
         <<"c", "i", "v", "i", "l", " ", "u", "n", "r", "e", "s", "t">>},
     health_crisis |->
        {<<"o", "u", "t", "b", "r", "e", "a", "k">>,
         <<"e", "p", "i", "d", "e", "m", "i", "c">>,
         <<"p", "a", "n", "d", "e", "m", "i", "c">>,
         <<"m", "a", "s", "s", " ", "c", "a", "s", "u", "a", "l", "t", "y">>,
         <<"h", "o", "s", "p", "i", "t", "a", "l", " ", "e", "m", "e", "r", "g", "e", "n", "c", "y">>,
         <<"t", "o", "x", "i", "c", " ", "s", "p", "i", "l", "l">>,
         <<"d", "i", "s", "e", "a", "s", "e", " ", "o", "u", "t", "b", "r", "e", "a", "k">>,
         <<"p", "u", "b", "l", "i", "c", " ", "h", "e", "a", "l", "t", "h", " ", "e", "m", "e", "r", "g", "e", "n", "c", "y">>,
         <<"m", "e", "d", "i", "c", "a", "l", " ", "c", "r", "i", "s", "i", "s">>},
     infrastructure |->
        {<<"b", "u", "i", "l", "d", "i", "n", "g", " ", "c", "o", "l", "l", "a", "p", "s", "e">>,
         <<"b", "r", "i", "d", "g", "e", " ", "c", "o", "l", "l", "a", "p", "s", "e">>,
         <<"t", "r", "a", "i", "n", " ", "d", "e", "r", "a", "i", "l", "m", "e", "n", "t">>,
         <<"p", "l", "a", "n", "e", " ", "c", "r", "a", "s", "h">>,
         <<"m", "a", "j", "o", "r", " ", "a", "c", "c", "i", "d", "e", "n", "t">>,
         <<"i", "n", "f", "r", "a", "s", "t", "r", "u", "c", "t", "u", "r", "e", " ", "f", "a", "i", "l", "u", "r", "e">>,
         <<"p", "o", "w", "e", "r", " ", "o", "u", "t", "a", "g", "e">>,
         <<"g", "a", "s", " ", "l", "e", "a", "k">>,
         <<"s", "t", "r", "u", "c", "t", "u", "r", "a", "l", " ", "f", "a", "i", "l", "u", "r", "e">>},
     humanitarian |->
        {<<"e", "v", "a", "c", "u", "a", "t", "i", "o", "n">>,
         <<"r", "e", "f", "u", "g", "e", "e", "s">>,
         <<"h", "u", "m", "a", "n", "i", "t", "a", "r", "i", "a", "n", " ", "c", "r", "i", "s", "i", "s">>,
         <<"e", "m", "e", "r", "g", "e", "n", "c", "y", " ", "r", "e", "s", "p", "o", "n", "s", "e">>,
         <<"d", "i", "s", "a", "s", "t", "e", "r", " ", "r", "e", "l", "i", "e", "f">>,
         <<"r", "e", "s", "c", "u", "e", " ", "o", "p", "e", "r", "a", "t", "i", "o", "n">>,
         <<"m", "i", "s", "s", "i", "n", "g", " ", "p", "e", "o", "p", "l", "e">>,
         <<"c", "a", "s", "u", "a", "l", "t", "i", "e", "s">>,
         <<"s", "t", "r", "a", "n", "d", "e", "d">>,
         <<"e", "m", "e", "r", "g", "e", "n", "c", "y", " ", "s", "h", "e", "l", "t", "e", "r">>}]
CRISIS_HASHTAGS ==
    {<<"#", "e", "m", "e", "r", "g", "e", "n", "c", "y">>,
     <<"#", "d", "i", "s", "a", "s", "t", "e", "r">>,
     <<"#", "c", "r", "i", "s", "i", "s">>,
     <<"#", "b", "r", "e", "a", "k", "i", "n", "g">>,
     <<"#", "r", "e", "s", "c", "u", "e">>,
     <<"#", "a", "l", "e", "r", "t">>,
     <<"#", "b", "r", "e", "a", "k", "i", "n", "g", "n", "e", "w", "s">>,
     <<"#", "S", "O", "S">>,
     <<"#", "u", "r", "g", "e", "n", "t", "h", "e", "l", "p">>,
     <<"#", "9", "1", "1">>,
     <<"#", "f", "i", "r", "s", "t", "r", "e", "s", "p", "o", "n", "d", "e", "r", "s">>,
     <<"#", "e", "v", "a", "c", "u", "a", "t", "i", "o", "n">>,
     <<"#", "r", "e", "l", "i", "e", "f">>,
     <<"#", "n", "a", "t", "u", "r", "a", "l", "d", "i", "s", "a", "s", "t", "e", "r">>}

\* _scrape_source, the words a candidate is kept for.
crisis_indicators ==
    {<<"e", "m", "e", "r", "g", "e", "n", "c", "y">>,
     <<"c", "r", "i", "s", "i", "s">>,
     <<"d", "i", "s", "a", "s", "t", "e", "r">>,
     <<"o", "u", "t", "b", "r", "e", "a", "k">>,
     <<"e", "a", "r", "t", "h", "q", "u", "a", "k", "e">>,
     <<"f", "l", "o", "o", "d">>,
     <<"h", "u", "r", "r", "i", "c", "a", "n", "e">>,
     <<"e", "v", "a", "c", "u", "a", "t", "i", "o", "n">>,
     <<"c", "a", "s", "u", "a", "l", "t", "i", "e", "s">>,
     <<"d", "a", "m", "a", "g", "e">>,
     <<"v", "i", "c", "t", "i", "m", "s">>,
     <<"i", "n", "j", "u", "r", "e", "d">>,
     <<"d", "e", "a", "d">>,
     <<"k", "i", "l", "l", "e", "d">>,
     <<"d", "e", "s", "t", "r", "o", "y", "e", "d">>,
     <<"u", "r", "g", "e", "n", "t">>,
     <<"h", "u", "m", "a", "n", "i", "t", "a", "r", "i", "a", "n">>,
     <<"r", "e", "s", "c", "u", "e">>,
     <<"r", "e", "l", "i", "e", "f">>}

\* --------------------------------------------------- the web collector's pages
\* A page is the sequence of the article candidates its markup holds, in the
\* order of the document; the empty markup of a failed fetch holds none.  A
\* candidate has the text of its title node and the href of its link node, or
\* NoNode where select_one finds none, the text of its first paragraph, and
\* whether the extraction of its nodes raises.
NoNode == <<"None">>

\* str.strip(): the whitespace at both ends is removed.
Strip(str) ==
    LET inked == {k \in 1..Len(str) : str[k] # " "}
    IN  IF inked = {} THEN <<>>
        ELSE SubSeq(str, CHOOSE k \in inked : \A j \in inked : k <= j,
                         CHOOSE k \in inked : \A j \in inked : k >= j)

\* str.split(sep): the parts between the separators.
RECURSIVE Split(_, _)
Split(str, sep) ==
    LET at == {k \in 1..Len(str) : str[k] = sep}
    IN  IF at = {} THEN <<str>>
        ELSE LET first == CHOOSE k \in at : \A j \in at : k <= j
             IN  <<SubSeq(str, 1, first - 1)>> \o Split(SubSeq(str, first + 1, Len(str)), sep)

\* str.startswith(prefix).
StartsWith(str, prefix) ==
    Len(str) >= Len(prefix) /\ SubSeq(str, 1, Len(prefix)) = prefix

\* What an expression gives when the index of a list is out of range.
IndexError == <<"IndexError">>

\* A normalisation that puts the link after the whole address of the source.
absolute_link_appended(url, link) ==
    IF StartsWith(link, <<"/">>) THEN url \o link ELSE link

\* _scrape_source, "Make relative URLs absolute": a link that begins with "/"
\* comes after split('/')[0], "//" and split('/')[2] of the source's address.
absolute_link(url, link) ==
    IF StartsWith(link, <<"/">>)
    THEN LET parts == Split(url, "/")
         IN  IF Len(parts) < 3 THEN IndexError
             ELSE parts[1] \o <<"/", "/">> \o parts[3] \o link
    ELSE link

\* An event built without its source, left to be filled in later.
CrisisEventNoSource(title, link) ==
    [title |-> title,
     event_type |-> extract_crisis_type(title),
     urgency_level |-> "MEDIUM",
     status |-> "ACTIVE",
     sources |-> <<>>]

\* _scrape_source, the CrisisEvent it builds for a candidate it keeps.
CrisisEvent(title, link) ==
    [title |-> title,
     event_type |-> extract_crisis_type(title),
     urgency_level |-> "MEDIUM",
     status |-> "ACTIVE",
     sources |-> <<[type |-> "news", url |-> link, text |-> title]>>]

RECURSIVE ScrapeFrom(_, _, _, _)

\* An "except" that gives up the source at the first candidate that raises.
OnArticleErrorStop(crisis_events, url, articles, i) == crisis_events

\* _scrape_source, "except Exception" in the loop over the articles: logged,
\* and the loop goes on with the next candidate.
OnArticleError(crisis_events, url, articles, i) ==
    ScrapeFrom(crisis_events, url, articles, i + 1)

\* _scrape_source, the loop over the articles from the i-th on.
ScrapeFrom(crisis_events, url, articles, i) ==
    IF i > Len(articles) THEN crisis_events
    ELSE LET article == articles[i]
         IN  IF article.broken THEN OnArticleError(crisis_events, url, articles, i)
             ELSE IF article.title_elem = NoNode \/ article.link_elem = NoNode
             THEN ScrapeFrom(crisis_events, url, articles, i + 1)
             ELSE LET title == Strip(article.title_elem)
                      description_text ==
                          IF article.description = NoNode THEN <<>>
                          ELSE Strip(article.description)
                      link == absolute_link(url, article.link_elem)
                      combined_text ==
                          ToLower(title) \o <<" ">> \o ToLower(description_text)
                  IN  IF link = IndexError
                      THEN OnArticleError(crisis_events, url, articles, i)
                      ELSE IF AnyIn(crisis_indicators, combined_text)
                      THEN ScrapeFrom(Append(crisis_events, CrisisEvent(title, link)),
                                      url, articles, i + 1)
                      ELSE ScrapeFrom(crisis_events, url, articles, i + 1)

\* WebScraperCollector._scrape_source once the markup is there: nothing for
\* empty markup, otherwise the events of its candidates.
scrape_source(url, html) ==
    IF html = <<>> THEN <<>> ELSE ScrapeFrom(<<>>, url, html, 1)

\* WebScraperCollector.NEWS_SOURCES.
NEWS_SOURCES ==
    <<[name |-> "Test Source", url |-> <<"f", "i", "l", "e", ":", "/", "/", "t", "e", "s", "t">>, is_dynamic |-> FALSE],
      [name |-> "Relief Web", url |-> 
           <<"h", "t", "t", "p", "s", ":", "/", "/", "r", "e", "l", "i", "e", "f", "w", "e", "b", ".", "i", "n", "t", "/", "u", "p", "d", "a", "t", "e", "s">>, is_dynamic |-> FALSE],
      [name |-> "AP News World", url |-> 
           <<"h", "t", "t", "p", "s", ":", "/", "/", "a", "p", "n", "e", "w", "s", ".", "c", "o", "m", "/", "h", "u", "b", "/", "w", "o", "r", "l", "d", "-", "n", "e", "w", "s">>, is_dynamic |-> TRUE]>>

\* A _fetch_page that does not look at the status of the response.
fetch_page_any_status(fetched) ==
    IF fetched.outcome \in {"ok", "status"} THEN fetched.body ELSE <<>>

\* WebScraperCollector._fetch_page, from what the fetch came to: the markup of
\* a response with status 200 (or the test file read); "" for another status,
\* a timeout or another error.
fetch_page(fetched) ==
    IF fetched.outcome = "ok" THEN fetched.body ELSE <<>>

\* WebScraperCollector._get_dynamic_content: the page source, or "" when the
\* driver raised or the body did not come in time.
get_dynamic_content(fetched) ==
    IF fetched.outcome = "ok" THEN fetched.body ELSE <<>>

\* WebScraperCollector.collect, the loop over NEWS_SOURCES from the i-th source
\* on, fetches[i] being what the fetch of the i-th source comes to.
RECURSIVE CollectFrom(_, _, _)
CollectFrom(all_events, fetches, i) ==
    IF i > Len(NEWS_SOURCES) THEN all_events
    ELSE LET source == NEWS_SOURCES[i]
             html == IF source.is_dynamic THEN get_dynamic_content(fetches[i])
                     ELSE fetch_page(fetches[i])
         IN  CollectFrom(all_events \o scrape_source(source.url, html), fetches, i + 1)

\* BaseDataCollector.__init__: self.keywords of a collector, built over the
\* configuration.
Keywords == flatten_keywords(CRISIS_KEYWORDS, CRISIS_HASHTAGS)

\* The texts the functions are called with: up to MaxWords fragments, one after
\* the other.
RECURSIVE TextsOf(_, _)
TextsOf(fragments, n) ==
    IF n = 0 THEN {<<>>}
    ELSE LET shorter == TextsOf(fragments, n - 1)
         IN  shorter \cup {t \o f : t \in shorter, f \in fragments}

TitleFragments ==
    {<<"F", "l", "o", "o", "d">>,
     <<"W", "A", "R">>,
     <<"w", "i", "l", "d">>,
     <<"f", "i", "r", "e">>,
     <<" ">>,
     <<"a">>,
     <<"r", "d">>,
     <<"S", "e", "i", "s", "m", "i", "c">>,
     <<"o", "u", "t", "b", "r", "e", "a", "k">>,
     <<"p", "r", "o">>,
     <<"t", "e", "s", "t">>,
     <<"p", "o", "w", "e", "r">>,
     <<"o", "u", "t", "a", "g", "e">>,
     <<"L", "e", "a", "k">>,
     <<"b", "l", "a", "c", "k", "o", "u", "t">>}
Titles == TextsOf(TitleFragments, MaxWords)

TextFragments ==
    {<<"F", "l", "o", "o", "d">>,
     <<"S", "O", "S">>,
     <<"s", "o", "s">>,
     <<"#">>,
     <<"9">>,
     <<"1", "1">>,
     <<"g", "a", "s">>,
     <<" ">>,
     <<"l", "e", "a", "k">>,
     <<"x">>}
Texts == TextsOf(TextFragments, MaxWords)

\* Configurations: keywords by category, and hashtags.  A keyword is not empty
\* and a hashtag has a character besides '#', as in the configuration.
Categories == {"natural_disaster", "human_conflict"}
KeywordPool ==
    {<<"f", "l", "o", "o", "d">>,
     <<"g", "a", "s", " ", "l", "e", "a", "k">>}
HashtagPool ==
    {<<"#", "S", "O", "S">>,
     <<"#", "9", "1", "1">>,
     <<"#", "x", "#", "y">>}

ClassifyCalls == [op : {"classify"}, title : Titles, done : {FALSE}, out : {"OTHER"}]
RelevantCalls ==
    [op : {"relevant"}, crisis_keywords : [Categories -> SUBSET KeywordPool],
     crisis_hashtags : SUBSET HashtagPool, text : Texts, done : {FALSE}, out : {FALSE}]

\* The candidates of the pages: with and without their nodes, with a title
\* that has a word of the indicators, of the keywords only, or of neither, with
\* a relative and an absolute link, and one whose extraction raises.
ArticleTitles ==
    {NoNode,
     <<"M", "a", "j", "o", "r", " ", "e", "a", "r", "t", "h", "q", "u", "a", "k", "e", " ", "s", "t", "r", "i", "k", "e", "s", " ", "r", "e", "g", "i", "o", "n">>,
     <<" ", "F", "l", "o", "o", "d", " ">>,
     <<"t", "s", "u", "n", "a", "m", "i">>,
     <<"D", "e", "a", "d">>}
ArticleLinks ==
    {NoNode,
     <<"/", "a", "/", "b">>,
     <<"h", "t", "t", "p", "s", ":", "/", "/", "y", ".", "o", "r", "g", "/", "z">>}
BrokenArticle ==
    [title_elem |-> 
        <<"M", "a", "j", "o", "r", " ", "e", "a", "r", "t", "h", "q", "u", "a", "k", "e", " ", "s", "t", "r", "i", "k", "e", "s", " ", "r", "e", "g", "i", "o", "n">>,
     link_elem |-> <<"/", "a", "/", "b">>, description |-> NoNode, broken |-> TRUE]
\* A candidate whose title has no indicator and whose first paragraph has one.
DescribedArticle ==
    [title_elem |-> <<"t", "s", "u", "n", "a", "m", "i">>,
     link_elem |-> <<"h", "t", "t", "p", "s", ":", "/", "/", "y", ".", "o", "r", "g", "/", "z">>,
     description |-> <<"R", "e", "s", "c", "u", "e", " ", "t", "e", "a", "m", "s">>,
     broken |-> FALSE]
Articles ==
    [title_elem : ArticleTitles, link_elem : ArticleLinks,
     description : {NoNode}, broken : {FALSE}] \cup {DescribedArticle, BrokenArticle}
Pages == UNION {[1..n -> Articles] : n \in 0..MaxArticles}

\* Addresses of sources: scheme, host and path.
SourceUrls ==
    {<<"h", "t", "t", "p", "s", ":", "/", "/", "x", ".", "c", "o", "m", "/", "y">>,
     <<"f", "i", "l", "e", ":", "/", "/", "t", "e", "s", "t">>}

ScrapeCalls == [op : {"scrape"}, url : SourceUrls, html : Pages, done : {FALSE}, out : {<<>>}]

\* What the fetch of a source may come to: the test file is read or not, a
\* static source answers with status 200 or another status, or the request
\* times out or fails, a rendered source gives its page, or the driver times
\* out or fails.  Only a response has a body.
OutcomesOf(source) ==
    IF source.is_dynamic THEN {"ok", "timeout", "error"}
    ELSE IF source.name = "Test Source" THEN {"ok", "error"}
    ELSE {"ok", "status", "timeout", "error"}
FetchedPages ==
    {<<>>,
     <<[title_elem |-> <<"M", "a", "j", "o", "r", " ", "e", "a", "r", "t", "h", "q", "u", "a", "k", "e", " ", "s", "t", "r", "i", "k", "e", "s", " ", "r", "e", "g", "i", "o", "n">>,
        link_elem |-> <<"/", "a", "/", "b">>, description |-> NoNode, broken |-> FALSE]>>,
     <<[title_elem |-> <<" ", "F", "l", "o", "o", "d", " ">>,
        link_elem |-> <<"h", "t", "t", "p", "s", ":", "/", "/", "y", ".", "o", "r", "g", "/", "z">>, description |-> NoNode, broken |-> FALSE]>>}
Fetches ==
    {fetches \in [DOMAIN NEWS_SOURCES ->
                     [outcome : {"ok", "status", "timeout", "error"}, body : FetchedPages]] :
        \A i \in DOMAIN NEWS_SOURCES :
            /\ fetches[i].outcome \in OutcomesOf(NEWS_SOURCES[i])
            /\ fetches[i].outcome \notin {"ok", "status"} => fetches[i].body = <<>>}

CollectCalls == [op : {"collect"}, fetches : Fetches, done : {FALSE}, out : {<<>>}]

\* No text function is being called.
NoCall == [op |-> "none"]

\* The state after construction, in surroundings e.
ProgramStart(e) ==
    /\ env = e
    /\ validation = NoValidation
    /\ starts = NoStarts
    /\ registration = NoRegistration
    /\ collectors = <<1>>
    /\ is_running = FALSE
    /\ last_run = NoTime
    /\ collection_count = 0
    /\ session = [c \in CollectorIds |-> "none"]
    /\ svc_running = FALSE
    /\ svc_task = FALSE
    /\ tasks = [t \in TaskIds |-> NoTask]
    /\ stop = NoStop
    /\ app = "init"
    /\ now = 0
    /\ calls = 0
    /\ stopSince = FALSE

Start(e) == ProgramStart(e) /\ fn = NoCall

\* The program as it runs: nothing raises where no code of it raises.
Init == Start(NoFaults)

\* Runs in which exceptions are raised by the surroundings.
InitFault == Start([NoFaults EXCEPT !.escape = TRUE, !.closeRaises = TRUE, !.finds = 0])


\* ------------------------------------------------------------ application

\* main.py startup_event: db.connect_db(), collection_service.start_collection()
\* (which creates the loop task it keeps in _collection_task), and then a second
\* asyncio.create_task(collector_manager.start_collection_loop()).  Nothing else
\* runs on the event loop before the handler returns.
Startup ==
    /\ app = "init"
    /\ validation' = InitializeCollectors
    /\ IF validation'.raised
       THEN \* the exception leaves start_collection and startup_event
            /\ app' = "failed"
            /\ UNCHANGED <<svc_running, svc_task, tasks>>
       ELSE /\ app' = "starting"
            /\ svc_running' = TRUE
            /\ svc_task' = TRUE
            /\ tasks' = [tasks EXCEPT !["svc"] = NewLoop, !["main"] = NewLoop]
    /\ starts' = [starts EXCEPT !.created = IF validation'.raised THEN @ ELSE @ + 1]
    /\ UNCHANGED <<fn, env, registration, collectors, is_running, last_run, collection_count, session, stop,
                   now, calls, stopSince>>

\* A call from outside: served once the application is up.
Call ==
    /\ app = "up"
    /\ EventLoopFree
    /\ NoneReady
    /\ calls < env.calls
    /\ calls' = calls + 1

\* ---------------------------------------------------------- CollectorManager

\* register_collector is called, before startup_event or while the application
\* is up, with a collector or with another object.
RegisterCollector ==
    /\ app \in {"init", "up"}
    /\ EventLoopFree
    /\ NoneReady
    /\ calls < env.calls
    /\ calls' = calls + 1
    /\ \E collector \in Registrable(collectors) :
          /\ collectors' = register_collector(collectors, collector).collectors
          /\ registration' = [collector |-> collector,
                              raised |-> register_collector(collectors, collector).raised]
    /\ UNCHANGED <<fn, env, starts, validation, is_running, last_run, collection_count, session, svc_running,
                   svc_task, tasks, stop, app, now, stopSince>>

\* start_collection_loop, its second line: "self.is_running = False".
ResetRunning(flag) == FALSE

\* start_collection_loop from its first line to the first suspension of its
\* first cycle.  The two tasks created at startup start in the order of their
\* creation.
LoopStart(t) ==
    /\ EventLoopFree
    /\ tasks[t].pc = "ready"
    /\ ~tasks[t].cancelReq
    /\ t = "main" => tasks["svc"].pc # "ready"
    /\ app' = IF app = "starting" /\ t = "main" THEN "up" ELSE app
    /\ IF ResetRunning(is_running)
       THEN \* "Collection loop is already running": return
            /\ tasks' = [tasks EXCEPT ![t] = Ended(@, "done")]
            /\ UNCHANGED <<is_running, last_run, collection_count, session, stopSince>>
       ELSE /\ is_running' = TRUE
            /\ stopSince' = FALSE
            /\ \E inp \in InputsOf(t, 1) : Commit(t, After(CollectAll(World(t), inp), inp))
    /\ UNCHANGED <<fn, env, starts, validation, registration, collectors, svc_running, svc_task, stop, now, calls>>

\* The fetch of the static source completes (with a page, or with the empty
\* markup of a failed fetch): _scrape_source goes on to the script-rendered
\* source and calls _get_dynamic_content, which blocks.
FetchDone(t) ==
    /\ EventLoopFree
    /\ NoneReady
    /\ tasks[t].pc = "fetch"
    /\ ~tasks[t].cancelReq
    /\ tasks' = [tasks EXCEPT ![t].pc = "render"]
    /\ UNCHANGED <<fn, env, starts, validation, registration, collectors, is_running, last_run, collection_count, session,
                   svc_running, svc_task, stop, app, now, calls, stopSince>>

\* _get_dynamic_content returns (the page, or "" after an error or a timeout);
\* then the "finally" of collect closes the session.
RenderDone(t) ==
    /\ tasks[t].pc = "render"
    /\ LET i == tasks[t].cidx
           c == collectors[i]
           w == World(t)
       IN  IF session[c] = "open"
           THEN \* "await self.session.close()" suspends
                Commit(t, [w EXCEPT !.session[c] = "closed", !.tk.pc = "close"])
           ELSE \* the session was closed or dropped by an overlapping call:
                \* nothing is left to close
                \E inp \in InputsOf(t, i) :
                    Commit(t, After(AfterCollect([w EXCEPT !.session[c] = "none"], i, inp), inp))
    /\ UNCHANGED <<fn, env, starts, validation, registration, collectors, is_running, svc_running, svc_task, stop, app, now, calls,
                   stopSince>>

\* session.close() returns: "self.session = None", collect returns its events,
\* and collect_all goes on.
CloseDone(t) ==
    /\ EventLoopFree
    /\ NoneReady
    /\ tasks[t].pc = "close"
    /\ ~tasks[t].cancelReq
    /\ LET i == tasks[t].cidx
           c == collectors[i]
           w == World(t)
       IN  \E inp \in InputsOf(t, i), fail \in CloseOutcomes :
               IF fail
               THEN \* close() raised inside the "finally": "self.session = None" is
                    \* skipped and the exception leaves collect()
                    Commit(t, After(OnCollectError(w, i, inp), inp))
               ELSE Commit(t, After(AfterCollect([w EXCEPT !.session[c] = "none"], i, inp),
                                    inp))
    /\ UNCHANGED <<fn, env, starts, validation, registration, collectors, is_running, svc_running, svc_task, stop, app, now, calls,
                   stopSince>>

\* A loop that tests the flag after its wait and waits again instead of ending.
WakeNoExit(t) ==
    /\ EventLoopFree
    /\ NoneReady
    /\ tasks[t].pc \in Waiting
    /\ ~tasks[t].cancelReq
    /\ now >= tasks[t].wakeAt
    /\ IF is_running
       THEN LET w == [World(t) EXCEPT !.tk.retry = (tasks[t].pc = "backoff")]
            IN  \E inp \in InputsOf(t, 1) : Commit(t, After(CollectAll(w, inp), inp))
       ELSE /\ tasks' = [tasks EXCEPT ![t] = Sleeping(now + UPDATE_INTERVAL_SECONDS)]
            /\ UNCHANGED <<last_run, collection_count, session>>
    /\ UNCHANGED <<fn, env, starts, validation, registration, collectors, is_running, svc_running, svc_task, stop, app, now, calls,
                   stopSince>>

\* asyncio.sleep returns; "while self.is_running" is tested again.
Wake(t) ==
    /\ EventLoopFree
    /\ NoneReady
    /\ tasks[t].pc \in Waiting
    /\ ~tasks[t].cancelReq
    /\ now >= tasks[t].wakeAt
    /\ IF is_running
       THEN LET w == [World(t) EXCEPT !.tk.retry = (tasks[t].pc = "backoff")]
            IN  \E inp \in InputsOf(t, 1) : Commit(t, After(CollectAll(w, inp), inp))
       ELSE /\ tasks' = [tasks EXCEPT ![t] = Ended(@, "done")]
            /\ UNCHANGED <<last_run, collection_count, session>>
    /\ UNCHANGED <<fn, env, starts, validation, registration, collectors, is_running, svc_running, svc_task, stop, app, now, calls,
                   stopSince>>

\* stop_collection of the manager: the flag is cleared, nothing else.
ManagerStop ==
    /\ Call
    /\ is_running' = FALSE
    /\ stopSince' = TRUE
    /\ UNCHANGED <<fn, env, starts, validation, registration, collectors, last_run, collection_count, session, svc_running,
                   svc_task, tasks, stop, app, now>>

\* get_status of the manager (GET /status): last_run and collection_count are
\* read into the answer.
Status ==
    /\ Call
    /\ UNCHANGED <<fn, env, starts, validation, registration, collectors, is_running, last_run, collection_count, session,
                   svc_running, svc_task, tasks, stop, app, now, stopSince>>

\* ---------------------------------------------------------- CollectionService

\* GET /events: collect_events, which calls collect_all on the manager.  When
\* the service is not running it raises at once and changes nothing.
Request ==
    /\ Call
    /\ svc_running
    /\ tasks["req"].pc = "none"
    /\ LET w == [World("req") EXCEPT !.tk = [NoTask EXCEPT !.kind = "request"]]
       IN  \E inp \in InputsOf("req", 1) : Commit("req", After(CollectAll(w, inp), inp))
    /\ UNCHANGED <<fn, env, starts, validation, registration, collectors, is_running, svc_running, svc_task, stop, app, now,
                   stopSince>>

\* insert_many has come to its end and the response of GET /events has been
\* sent: the request's task is gone.
Respond ==
    /\ EventLoopFree
    /\ NoneReady
    /\ tasks["req"].pc \in {"done", "failed"}
    /\ tasks' = [tasks EXCEPT !["req"] = NoTask]
    /\ UNCHANGED <<fn, env, starts, validation, registration, collectors, is_running, last_run, collection_count, session,
                   svc_running, svc_task, stop, app, now, calls, stopSince>>

\* A start_collection that creates its loop task whether or not it holds one.
StartCreatesAlways(task) == TRUE

\* start_collection, "if not self._collection_task": whether the task is created.
StartCreates(task) == ~task

\* start_collection from the return of its last await to its end, pending
\* calls being left suspended: initialize_collectors has its result, the loop
\* task is created unless one is held, and _running is set.
StartFinish(pending) ==
    /\ validation' = InitializeCollectors
    /\ IF validation'.raised
       THEN /\ starts' = [starts EXCEPT !.pending = pending]
            /\ UNCHANGED <<svc_running, svc_task, tasks>>
       ELSE /\ svc_running' = TRUE
            /\ IF StartCreates(svc_task)
               THEN /\ svc_task' = TRUE
                    /\ tasks' = [tasks EXCEPT !["svc"] = NewLoop]
                    /\ starts' = [starts EXCEPT !.pending = pending, !.created = @ + 1]
               ELSE /\ starts' = [starts EXCEPT !.pending = pending, !.held = TRUE]
                    /\ UNCHANGED <<svc_task, tasks>>

\* start_collection is called: nothing when the service is running; otherwise
\* _init_db and initialize_collectors are awaited.  With the database connected
\* and WebScraperCollectors registered these awaits do not suspend and the
\* call runs to its end; in other surroundings it may be suspended in them.
ServiceStart ==
    /\ Call
    /\ IF svc_running
       THEN UNCHANGED <<starts, validation, svc_running, svc_task, tasks>>
       ELSE \/ StartFinish(starts.pending)
            \/ /\ env.awaits
               /\ starts' = [starts EXCEPT !.pending = @ + 1]
               /\ UNCHANGED <<validation, svc_running, svc_task, tasks>>
    /\ UNCHANGED <<fn, env, registration, collectors, is_running, last_run, collection_count, session, stop,
                   app, now, stopSince>>

\* The awaits of a suspended start_collection call are over: it runs to its end.
ServiceStartResume ==
    /\ EventLoopFree
    /\ NoneReady
    /\ starts.pending > 0
    /\ StartFinish(starts.pending - 1)
    /\ UNCHANGED <<fn, env, registration, collectors, is_running, last_run, collection_count, session, stop,
                   app, now, calls, stopSince>>

\* A cleanup() of the collector that closes without asking whether a session
\* is held.
CollectorCleanupNoGuard(s) ==
    CASE s = "open" -> [session |-> "closed", suspended |-> TRUE, raised |-> FALSE]
      [] s = "closed" -> [session |-> "none", suspended |-> FALSE, raised |-> FALSE]
      [] OTHER -> [session |-> "none", suspended |-> FALSE, raised |-> TRUE]

\* WebScraperCollector.cleanup up to its suspension, from the session it finds:
\* an open session is closed, and close() suspends; close() of a closed session
\* returns at once; without a session nothing is done.
CollectorCleanup(s) ==
    CASE s = "open" -> [session |-> "closed", suspended |-> TRUE, raised |-> FALSE]
      [] s = "closed" -> [session |-> "none", suspended |-> FALSE, raised |-> FALSE]
      [] OTHER -> [session |-> "none", suspended |-> FALSE, raised |-> FALSE]

\* The manager's cleanup() as it stands when it begins or resumes.
CleanupState(sess) ==
    [session |-> sess, idx |-> 0, visited |-> stop.visited, raised |-> stop.raised,
     failed |-> FALSE]

RECURSIVE CleanupFrom(_, _)

\* An "except" that lets the collector's error out of cleanup().
OnCleanupErrorRaise(st, i) ==
    [st EXCEPT !.raised = @ \cup {collectors[i]}, !.failed = TRUE,
               !.idx = Len(collectors) + 1]

\* CollectorManager.cleanup, "except Exception" around a collector's cleanup():
\* logged, and the loop goes on with the next collector.
OnCleanupError(st, i) ==
    CleanupFrom([st EXCEPT !.raised = @ \cup {collectors[i]}], i + 1)

\* CollectorManager.cleanup from the i-th collector on, up to the first
\* session.close() that suspends or to its end.
CleanupFrom(st, i) ==
    IF i > Len(collectors) THEN [st EXCEPT !.idx = i]
    ELSE LET c == collectors[i]
             r == CollectorCleanup(st.session[c])
             st1 == [st EXCEPT !.session[c] = r.session,
                               !.visited = Append(@, [c |-> c, saw |-> st.session[c]])]
         IN  IF r.raised THEN OnCleanupError(st1, i)
             ELSE IF r.suspended THEN [st1 EXCEPT !.idx = i]
             ELSE CleanupFrom(st1, i + 1)

\* stop_collection of the service from "await self.collector_manager.cleanup()"
\* on, r being where cleanup() has got to: when cleanup returns, _running is
\* cleared; were it to raise, the exception would leave stop_collection.
StopCleanup(r) ==
    /\ session' = r.session
    /\ IF r.failed \/ r.idx > Len(collectors)
       THEN /\ stop' = [NoStop EXCEPT !.visited = r.visited, !.raised = r.raised,
                                      !.failed = r.failed]
            /\ svc_running' = (svc_running /\ r.failed)
            /\ stopSince' = (stopSince \/ ~is_running')
       ELSE /\ stop' = [NoStop EXCEPT !.pc = "cleanup", !.idx = r.idx,
                                      !.visited = r.visited, !.raised = r.raised]
            /\ UNCHANGED <<svc_running, stopSince>>

\* stop_collection of the service: the manager's flag is cleared, the loop task
\* is cancelled and awaited.
ServiceStop ==
    /\ Call
    /\ svc_running
    /\ stop.pc = "idle"
    /\ is_running' = FALSE
    /\ IF svc_task /\ tasks["svc"].pc \notin Finished
       THEN /\ tasks' = [tasks EXCEPT !["svc"].cancelReq = TRUE]
            /\ stop' = [NoStop EXCEPT !.pc = "await_task"]
            /\ UNCHANGED <<starts, svc_task, session, svc_running, stopSince>>
       ELSE /\ svc_task' = FALSE
            /\ starts' = [starts EXCEPT !.created = 0, !.held = FALSE]
            /\ StopCleanup(CleanupFrom([CleanupState(session) EXCEPT !.visited = <<>>,
                                                                     !.raised = {}], 1))
            /\ UNCHANGED tasks
    /\ UNCHANGED <<fn, env, validation, registration, collectors, last_run, collection_count, app, now>>

\* The cancelled task receives CancelledError at the await it is suspended in.
\* No "except Exception" catches it; the "finally" of collect closes the session.
TaskCancelled(t) ==
    /\ EventLoopFree
    /\ tasks[t].cancelReq
    /\ tasks[t].pc \in {"ready", "fetch", "close"} \cup Waiting
    /\ CASE tasks[t].pc = "fetch" ->
              /\ tasks' = [tasks EXCEPT ![t] = Ended(@, "aborted")]
              /\ session' = [session EXCEPT ![collectors[tasks[t].cidx]] = "none"]
         [] tasks[t].pc = "close" ->
              \* cancelled inside the finally: "self.session = None" is skipped
              /\ tasks' = [tasks EXCEPT ![t] = Ended(@, "aborted")]
              /\ UNCHANGED session
         [] OTHER ->
              /\ tasks' = [tasks EXCEPT ![t] = Ended(@, "cancelled")]
              /\ UNCHANGED session
    /\ UNCHANGED <<fn, env, starts, validation, registration, collectors, is_running, last_run, collection_count, svc_running,
                   svc_task, stop, app, now, calls, stopSince>>

\* "await self._collection_task" returns (CancelledError is swallowed).
ServiceStopResume ==
    /\ EventLoopFree
    /\ NoneReady
    /\ stop.pc = "await_task"
    /\ tasks["svc"].pc \in Finished
    /\ svc_task' = FALSE
    /\ starts' = [starts EXCEPT !.created = 0, !.held = FALSE]
    /\ is_running' = FALSE
    /\ StopCleanup(CleanupFrom(CleanupState(session), 1))
    /\ UNCHANGED <<fn, env, validation, registration, collectors, last_run, collection_count, tasks, app, now, calls>>

\* A session.close() awaited by a collector's cleanup() returns: "self.session
\* = None", and the manager's cleanup goes on with the next collector; or it
\* raises, and the session is kept.
CleanupResume ==
    /\ EventLoopFree
    /\ NoneReady
    /\ stop.pc = "cleanup"
    /\ UNCHANGED <<fn, env, starts, validation, registration, collectors, is_running, last_run, collection_count, svc_task, tasks,
                   app, now, calls>>
    /\ \E fail \in CloseOutcomes :
         IF fail
         THEN StopCleanup(OnCleanupError(CleanupState(session), stop.idx))
         ELSE StopCleanup(CleanupFrom(
                  CleanupState([session EXCEPT ![collectors[stop.idx]] = "none"]),
                  stop.idx + 1))

\* main.py shutdown_event: collection_service.stop_collection() is called
\* without await, so the coroutine is made and dropped and none of its lines
\* runs; then db.close_db(), which does not suspend.  The tasks go on until the
\* event loop is closed.
Shutdown ==
    /\ app = "up"
    /\ EventLoopFree
    /\ NoneReady
    /\ app' = "down"
    /\ UNCHANGED <<fn, env, starts, validation, registration, collectors, is_running, last_run, collection_count,
                   session, svc_running, svc_task, tasks, stop, now, calls, stopSince>>

\* ------------------------------------------------------------------- time
Tick ==
    /\ app = "up"
    /\ now + TickSeconds <= MaxTime
    /\ now' = now + TickSeconds
    /\ UNCHANGED <<fn, env, starts, validation, registration, collectors, is_running, last_run, collection_count, session,
                   svc_running, svc_task, tasks, stop, app, calls, stopSince>>

\* Time beyond the last tick of the clock, followed once the running flag is
\* cleared: the clock keeps its last reading and the waits that are not over
\* come a tick nearer.
LateTick ==
    /\ app = "up"
    /\ now + TickSeconds > MaxTime
    /\ ~is_running
    /\ \E t \in TaskIds : tasks[t].pc \in Waiting /\ tasks[t].wakeAt > now
    /\ tasks' = [t \in TaskIds |->
                   IF tasks[t].pc \in Waiting /\ tasks[t].wakeAt > now
                   THEN [tasks[t] EXCEPT !.wakeAt = @ - TickSeconds]
                   ELSE tasks[t]]
    /\ UNCHANGED <<fn, env, starts, validation, registration, collectors, is_running, last_run, collection_count, session,
                   svc_running, svc_task, stop, app, now, calls, stopSince>>

\* The state of the program, which the text functions neither read nor write.
progVars == <<env, starts, validation, registration, collectors, is_running, last_run, collection_count,
              session, svc_running, svc_task, tasks, stop, app, now, calls, stopSince>>

\* _extract_crisis_type is called with the title and returns.
Classify ==
    /\ fn.op = "classify"
    /\ ~fn.done
    /\ fn' = [fn EXCEPT !.done = TRUE, !.out = extract_crisis_type(fn.title)]
    /\ UNCHANGED progVars

\* A collector is constructed over the configuration (self.keywords =
\* self._flatten_keywords()) and is_relevant_content is called with the text.
IsRelevant ==
    /\ fn.op = "relevant"
    /\ ~fn.done
    /\ fn' = [fn EXCEPT !.done = TRUE,
                        !.out = is_relevant_content(
                                    flatten_keywords(fn.crisis_keywords, fn.crisis_hashtags),
                                    fn.text)]
    /\ UNCHANGED progVars

\* _scrape_source goes through the candidates of the markup it has fetched.
Scrape ==
    /\ fn.op = "scrape"
    /\ ~fn.done
    /\ fn' = [fn EXCEPT !.done = TRUE, !.out = scrape_source(fn.url, fn.html)]
    /\ UNCHANGED progVars

\* collect goes through NEWS_SOURCES: all_events is what it returns.
CollectSources ==
    /\ fn.op = "collect"
    /\ ~fn.done
    /\ fn' = [fn EXCEPT !.done = TRUE, !.out = CollectFrom(<<>>, fn.fetches, 1)]
    /\ UNCHANGED progVars

Next ==
    \/ Startup
    \/ RegisterCollector
    \/ \E t \in TaskIds : LoopStart(t)
    \/ \E t \in TaskIds : FetchDone(t)
    \/ \E t \in TaskIds : RenderDone(t)
    \/ \E t \in TaskIds : CloseDone(t)
    \/ \E t \in TaskIds : Wake(t)
    \/ \E t \in TaskIds : TaskCancelled(t)
    \/ ManagerStop
    \/ Status
    \/ Request
    \/ Respond
    \/ ServiceStart
    \/ ServiceStop
    \/ ServiceStopResume
    \/ CleanupResume
    \/ Tick

Spec == Init /\ [][Next]_vars

SpecFault == InitFault /\ [][Next]_vars

NextLive == Next \/ LateTick

\* The next step of task t: where the task is decides which one it is.
TaskStep(t) ==
    \/ LoopStart(t)
    \/ FetchDone(t)
    \/ RenderDone(t)
    \/ CloseDone(t)
    \/ Wake(t)
    \/ TaskCancelled(t)

\* The event loop runs every coroutine that is ready; a fetch, a rendering and
\* a close come to an end; time passes.  Calls from outside are not owed.
Fairness ==
    /\ \A t \in TaskIds : WF_vars(TaskStep(t))
    /\ WF_vars(ServiceStopResume \/ CleanupResume)
    /\ WF_vars(Tick \/ LateTick)

\* Runs whose pages hold no event: what is collected does not bear on whether
\* the loops come to their end.
InitLive == Start([NoFaults EXCEPT !.finds = 0])

\* Runs with collectors of any kind registered, whose pages hold no event.
InitValidate ==
    \E e \in Environments :
        /\ ~e.escape /\ ~e.closeRaises /\ ~e.awaits /\ e.finds = 0 /\ e.calls = MaxCalls
        /\ Start(e)

SpecValidate == InitValidate /\ [][Next]_vars

\* The text functions, called with every title, and with every text under
\* every configuration; _scrape_source with every page, and collect with
\* every outcome of its fetches.
InitText ==
    /\ ProgramStart(NoFaults)
    /\ fn \in ClassifyCalls \cup RelevantCalls \cup ScrapeCalls \cup CollectCalls

NextText == Classify \/ IsRelevant \/ Scrape \/ CollectSources

SpecText == InitText /\ [][NextText]_vars

SpecLive == InitLive /\ [][NextLive]_vars /\ Fairness

\* The life of the service: runs whose pages hold no event, in which the
\* awaits of start_collection may suspend and one more call is made, up to
\* the shutdown of the application.
InitLife == Start([NoFaults EXCEPT !.finds = 0, !.awaits = TRUE, !.calls = MaxCalls + 1])

NextLife == Next \/ ServiceStartResume \/ Shutdown

SpecLife == InitLife /\ [][NextLife]_vars

TypeOK ==
    /\ Len(collectors) \in 1..MaxCollectors
    /\ is_running \in BOOLEAN
    /\ last_run \in {NoTime} \cup 0..MaxTime
    /\ collection_count \in Nat
    /\ session \in [CollectorIds -> {"none", "open", "closed"}]
    /\ \A t \in TaskIds : tasks[t].pc \in
         {"none", "ready"} \cup InCycle \cup Waiting \cup Finished
    /\ starts.pending \in 0..(MaxCalls + 1)
    /\ starts.created \in 0..(MaxCalls + 1)
    /\ registration.collector \in CollectorIds \cup {NotACollector}
    /\ registration.raised \in {"none", "ValueError"}

\* ===================================================================== claims

LoopTasks == {t \in TaskIds : tasks[t].kind = "loop"}

\* The step begins a collect() in task t: t comes to be suspended inside the
\* collect() of a collector it was not inside before.
BeginsCollect(t) ==
    /\ tasks'[t].pc \in InCycle
    /\ tasks[t].pc \notin InCycle \/ tasks'[t].cidx # tasks[t].cidx

\* The step ends with collect_all returning in task t (a loop goes to sleep, a
\* request has its response).
CollectAllReturns(t) ==
    /\ tasks'[t] # tasks[t]
    /\ ~tasks'[t].cancelReq
    /\ tasks'[t].pc = IF tasks'[t].kind = "loop" THEN "sleep" ELSE "done"

\* The events the ok entries of a history hold, in order.
RECURSIVE Union(_)
Union(rets) ==
    IF rets = <<>> THEN <<>>
    ELSE (IF Head(rets).ok THEN Head(rets).events ELSE <<>>) \o Union(Tail(rets))

\* C1: at most one scheduler loop is executing cycles on the manager, in every
\* reachable state, the startup sequence included (a second start is a no-op).
C1_OneSchedulerLoop ==
    Cardinality({t \in LoopTasks : tasks[t].pc \in InCycle \cup Waiting}) <= 1

\* C2: once stop() has completed (and no loop has been started since), no loop
\* task begins a collect().
C2_NoCollectAfterStop ==
    [][\A t \in TaskIds :
         (tasks'[t].kind = "loop" /\ BeginsCollect(t)) => ~stopSince']_vars

\* C3: collect_all never raises, whichever collectors throw; it invokes
\* collect() on every registered collector, in order, and what it has gathered
\* and what it returns is the union of the events of those that did not throw.
C3_CollectAllIsolates ==
    \A t \in TaskIds :
        /\ tasks[t].pc \notin {"backoff", "failed"}
        /\ tasks[t].pc \in InCycle \cup {"done"} =>
             /\ tasks[t].all_events = Union(tasks[t].rets)
             /\ \A i \in DOMAIN tasks[t].rets : tasks[t].rets[i].c = collectors[i]
        /\ tasks[t].pc \in InCycle => Len(tasks[t].rets) = tasks[t].cidx - 1
        /\ (tasks[t].pc = "done" /\ tasks[t].kind = "request") =>
             Len(tasks[t].rets) = tasks[t].nreg

\* C3 witness: a collect_all call has returned after one collector threw and
\* another returned an event.
C3_Witness ==
    /\ tasks["req"].pc = "done"
    /\ \E i, j \in DOMAIN tasks["req"].rets :
         /\ ~tasks["req"].rets[i].ok
         /\ tasks["req"].rets[j].ok
         /\ tasks["req"].rets[j].events # <<>>
    /\ tasks["req"].all_events # <<>>

\* C4: when a collect_all call returns, the cumulative count is the count at
\* the start of the call plus the number of events the call returns.  (The
\* events the returning step itself adds are counted on both sides, so the
\* equation is the one between the count before that step, the count at the
\* start of the call and the events gathered before that step.)
C4_CountGrowsByReturned ==
    [][\A t \in TaskIds :
         CollectAllReturns(t) =>
            collection_count =
                IF tasks[t].pc \in InCycle
                THEN tasks[t].count0 + Len(tasks[t].all_events)
                ELSE collection_count]_vars

\* C5: when a collect_all call returns, last_run is the time of that return.
C5_LastRunIsCycleEnd ==
    [][\A t \in TaskIds : CollectAllReturns(t) => last_run' = now]_vars

\* C6: no stop aborts a cycle in flight.
C6_StopNeverAborts == \A t \in TaskIds : tasks[t].pc # "aborted"

\* C7: a step that clears the running flag while a loop is in its wait leaves
\* that loop able to wake at once.
C7_StopWakesWait ==
    [][\A t \in TaskIds :
         (tasks[t].pc \in Waiting /\ is_running /\ ~is_running') =>
            (now >= tasks[t].wakeAt \/ tasks'[t].cancelReq)]_vars

\* C8: at most one collect_all call is in progress on the manager.
C8_CyclesDoNotOverlap ==
    Cardinality({t \in TaskIds : tasks[t].pc \in InCycle}) <= 1

\* C9: no collect() invocation ends by throwing.
C9_CollectNeverThrows ==
    \A t \in TaskIds : \A i \in DOMAIN tasks[t].rets : tasks[t].rets[i].ok

\* C10: the collect() calls of a cycle all begin when the cycle begins: none
\* begins in a step taken from inside the cycle, after waiting for another.
C10_ParallelFanOut ==
    [][\A t \in TaskIds : BeginsCollect(t) => tasks[t].pc \notin InCycle]_vars

\* C11: while a script-rendered source's fetch is in progress in one task, the
\* other tasks of the event loop can take their steps: a sibling whose fetch
\* has its response goes on, and stop() is served.
C11_RenderOffLoop ==
    \A t \in TaskIds :
        tasks[t].pc = "render" =>
            /\ \A u \in TaskIds \ {t} :
                  (tasks[u].pc = "fetch" /\ ~tasks[u].cancelReq) => ENABLED FetchDone(u)
            /\ (app = "up" /\ calls < env.calls) => ENABLED ManagerStop

\* C12: an exception that escapes a cycle does not end the loop: the loop task
\* does not fail, it waits the fallback interval, and when that wait is over
\* and the running flag is still set it begins another cycle.
C12_LoopSurvivesError ==
    [][\A t \in TaskIds :
         tasks'[t].kind = "loop" =>
            /\ tasks'[t].pc # "failed"
            /\ (tasks'[t].pc = "backoff" /\ tasks[t].pc # "backoff") =>
                  tasks'[t].wakeAt = now + FALLBACK_SECONDS
            /\ (tasks[t].pc = "backoff" /\ tasks'[t].pc # "backoff"
                   /\ ~tasks[t].cancelReq /\ is_running) =>
                  /\ now >= tasks[t].wakeAt
                  /\ tasks'[t].pc \in InCycle \cup Waiting]_vars

\* C12 witness: a loop is inside the cycle it began after the fallback wait.
C12_Witness ==
    \E t \in TaskIds : tasks[t].kind = "loop" /\ tasks[t].retry /\ tasks[t].pc \in InCycle

\* C13: the wait a loop begins after a failed cycle is strictly shorter than
\* the regular interval.
C13_FallbackShorter ==
    [][\A t \in TaskIds :
         (tasks'[t].pc = "backoff" /\ tasks[t].pc # "backoff") =>
            tasks'[t].wakeAt - now < UPDATE_INTERVAL_SECONDS]_vars

\* C14: when a loop is started after the loop was stopped, exactly one loop is
\* running on the manager afterwards, and the last-run time and the cumulative
\* count are not reset by the restart.
C14_RestartIsOneLoop ==
    [][\A t \in TaskIds :
         (stopSince /\ tasks[t].pc = "ready" /\ tasks'[t].pc \notin {"ready"} \cup Finished) =>
            /\ Cardinality({u \in TaskIds : /\ tasks'[u].kind = "loop"
                                             /\ tasks'[u].pc \in InCycle \cup Waiting}) = 1
            /\ collection_count' >= collection_count
            /\ last_run # NoTime => last_run' # NoTime]_vars

\* The loops have all come to their end.
LoopsEnded == \A t \in TaskIds : tasks[t].kind = "loop" => tasks[t].pc \in Finished

\* C15: once stop() has completed, and unless a loop is started afterwards,
\* every loop task eventually terminates.
C15_StopTerminatesLoop == stopSince ~> (LoopsEnded \/ ~stopSince)

\* C15 witness: after a stop, with no start since, the loops have ended and one
\* of them ended by finding the flag cleared after its wait.
C15_Witness ==
    /\ stopSince
    /\ LoopsEnded
    /\ \E t \in TaskIds : tasks[t].kind = "loop" /\ tasks[t].pc = "done"

\* The collectors whose cleanup() the manager's cleanup() has called, in order.
VisitedIds(st) == [i \in 1..Len(st.visited) |-> st.visited[i].c]

\* The step is one of the manager's cleanup(): it begins it, or resumes it.
CleanupSteps == stop' # stop /\ stop'.pc \in {"cleanup", "idle"}

\* C16: the manager's cleanup() clears the running flag when it begins; it
\* calls cleanup() on the registered collectors in order, whichever of them
\* raise, and on all of them by the time it returns; it never raises.
C16_CleanupIsolates ==
    [][CleanupSteps =>
         /\ stop.pc # "cleanup" => ~is_running'
         /\ ~stop'.failed
         /\ stop'.pc = "idle" => VisitedIds(stop') = collectors'
         /\ stop'.pc = "cleanup" =>
               VisitedIds(stop') = SubSeq(collectors', 1, stop'.idx)]_vars

\* C16 witness: a cleanup() has returned after the first collector's cleanup()
\* raised, and the second collector was cleaned up all the same.
C16_Witness ==
    /\ stop.pc = "idle"
    /\ Len(stop.visited) = 2
    /\ stop.visited[1].c \in stop.raised
    /\ ~stop.failed

\* C17: every cleanup() of a collector that returns has not raised and leaves
\* the collector without a session; when it found no session, or a closed
\* one, it returns in the step that called it.
C17_CollectorCleanupIdempotent ==
    [][CleanupSteps =>
         LET lo == IF stop.pc = "cleanup" THEN stop.idx ELSE 1
             hi == IF stop'.pc = "cleanup" THEN stop'.idx - 1 ELSE Len(stop'.visited)
         IN  \A i \in lo..hi :
                 LET v == stop'.visited[i]
                 IN  /\ v.c \notin stop'.raised
                     /\ session'[v.c] = "none"
                     /\ v.saw # "open" => ~(stop.pc = "cleanup" /\ i = stop.idx)]_vars

\* C17 witness: a cleanup() of the manager has returned that found one
\* collector without a session and another with its session open.
C17_Witness ==
    /\ stop.pc = "idle"
    /\ stop.raised = {}
    /\ \E i, j \in DOMAIN stop.visited :
          stop.visited[i].saw = "none" /\ stop.visited[j].saw = "open"

\* C18: every start_collection runs initialize_collectors, which calls
\* validate_credentials on every registered collector, in order, whatever the
\* earlier ones return or raise; it does not raise; its result is true exactly
\* when every collector returned true; and whatever the result, the service is
\* started and holds its loop task.
C18_InitializeAllIsolates ==
    [][(validation' # validation \/ (~svc_running /\ svc_running')) =>
         /\ validation'.ran
         /\ ~validation'.raised
         /\ validation'.visited = collectors
         /\ validation'.all_valid =
               (\A i \in DOMAIN collectors : env.validate[collectors[i]] = "true")
         /\ svc_running' /\ svc_task'
         /\ tasks'["svc"] = NewLoop]_vars

\* C18 witness: the service is started and its loop runs after an
\* initialize_collectors whose first collector did not validate and whose
\* second was validated all the same, with the result false.
C18_Witness ==
    /\ validation.ran
    /\ Len(validation.visited) = 2
    /\ env.validate[validation.visited[1]] # "true"
    /\ ~validation.all_valid
    /\ svc_running
    /\ tasks["svc"].pc \in InCycle

\* The order in which the groups are asked for.
PriorityOrder ==
    <<"EARTHQUAKE", "FLOOD", "FIRE", "VIOLENCE", "DISEASE_OUTBREAK",
      "INFRASTRUCTURE_FAILURE", "PROTEST", "INDUSTRIAL_ACCIDENT">>

\* The keywords of a group.
WordsOf(type) ==
    CASE type = "EARTHQUAKE" -> EarthquakeWords
      [] type = "FLOOD" -> FloodWords
      [] type = "FIRE" -> FireWords
      [] type = "VIOLENCE" -> ViolenceWords
      [] type = "DISEASE_OUTBREAK" -> DiseaseWords
      [] type = "INFRASTRUCTURE_FAILURE" -> InfrastructureWords
      [] type = "PROTEST" -> ProtestWords
      [] type = "INDUSTRIAL_ACCIDENT" -> AccidentWords

\* The groups one of whose keywords is a substring of the lowercased title, by
\* their place in the order.
MatchingGroups(title) ==
    {k \in DOMAIN PriorityOrder :
        \E word \in WordsOf(PriorityOrder[k]) : Contains(ToLower(title), word)}

\* C19: the category of a title is one of the closed enumeration: that of the
\* first group, in the fixed order, one of whose keywords is a substring of
\* the lowercased title, and OTHER when no group has one.
C19_ClassifyFirstGroup ==
    (fn.op = "classify" /\ fn.done) =>
        /\ fn.out \in EventType
        /\ LET m == MatchingGroups(fn.title)
           IN  fn.out = IF m = {} THEN "OTHER"
                        ELSE PriorityOrder[CHOOSE k \in m : \A j \in m : k <= j]

\* C19 witness: a title with a keyword of FLOOD and one of VIOLENCE, in capital
\* letters, has been classified as FLOOD.
C19_Witness ==
    /\ fn.op = "classify" /\ fn.done
    /\ fn.title # ToLower(fn.title)
    /\ AnyIn(FloodWords, ToLower(fn.title))
    /\ AnyIn(ViolenceWords, ToLower(fn.title))
    /\ fn.out = "FLOOD"

HasNodes(article) ==
    ~article.broken /\ article.title_elem # NoNode /\ article.link_elem # NoNode

\* The title of a candidate, and its snippet (none: the empty text).
TitleOf(article) == Strip(article.title_elem)
SnippetOf(article) ==
    IF article.description = NoNode THEN <<>> ELSE Strip(article.description)

\* The combined text of a candidate: its title and snippet, lowercased.
CombinedText(article) ==
    ToLower(TitleOf(article)) \o <<" ">> \o ToLower(SnippetOf(article))

\* The titles of a sequence of events.
EventTitles(events) == [k \in DOMAIN events |-> events[k].title]

\* C21: the events of a source are those of its candidates that have a title
\* and a link and whose combined text the shared filter (is_relevant_content
\* over the flattened keywords and stripped hashtags) finds relevant; the
\* others are dropped.
C21_SharedRelevanceFilter ==
    (fn.op = "scrape" /\ fn.done) =>
        LET kept == SelectSeq(fn.html,
                              LAMBDA article :
                                  /\ HasNodes(article)
                                  /\ is_relevant_content(Keywords, CombinedText(article)))
        IN  EventTitles(fn.out) = [k \in DOMAIN kept |-> TitleOf(kept[k])]

\* The candidates _scrape_source keeps: those with a title and a link whose
\* combined text holds one of its indicators.
Kept(articles) ==
    SelectSeq(articles,
              LAMBDA article :
                  HasNodes(article) /\ AnyIn(crisis_indicators, CombinedText(article)))

\* The scheme and host of an address: what comes before its third "/".
OriginOf(url) ==
    LET slashes == {k \in 1..Len(url) : url[k] = "/"}
    IN  IF Cardinality(slashes) < 3 THEN url
        ELSE SubSeq(url, 1, (CHOOSE k \in slashes :
                                Cardinality({j \in slashes : j < k}) = 2) - 1)

\* The link as the claim has it normalised.
NormalizedLink(url, link) ==
    IF link # <<>> /\ Head(link) = "/" THEN OriginOf(url) \o link ELSE link

\* C22: the address an event carries is the link of its candidate, unchanged
\* when it does not begin with "/", and otherwise the scheme and host of the
\* source's address followed by the link.
C22_LinkNormalization ==
    (fn.op = "scrape" /\ fn.done) =>
        LET kept == Kept(fn.html)
        IN  /\ Len(fn.out) = Len(kept)
            /\ \A k \in DOMAIN fn.out :
                  fn.out[k].sources[1].url = NormalizedLink(fn.url, kept[k].link_elem)

\* C22 witness: from the source "https://x.com/y" the link "/a/b" has become
\* exactly "https://x.com/a/b", and an absolute link has been kept as it was.
C22_Witness ==
    /\ fn.op = "scrape" /\ fn.done
    /\ fn.url = <<"h", "t", "t", "p", "s", ":", "/", "/", "x", ".", "c", "o", "m", "/", "y">>
    /\ Len(fn.out) = 2
    /\ Kept(fn.html)[1].link_elem = <<"/", "a", "/", "b">>
    /\ fn.out[1].sources[1].url =
          <<"h", "t", "t", "p", "s", ":", "/", "/", "x", ".", "c", "o", "m", "/", "a", "/", "b">>
    /\ ~StartsWith(Kept(fn.html)[2].link_elem, <<"/">>)
    /\ fn.out[2].sources[1].url = Kept(fn.html)[2].link_elem

\* The category of a title as the classifier is specified: that of the first
\* group, in the fixed order, with a keyword in the lowercased title.
ClassOf(title) ==
    LET m == MatchingGroups(title)
    IN  IF m = {} THEN "OTHER" ELSE PriorityOrder[CHOOSE k \in m : \A j \in m : k <= j]

\* C24: every event of a source carries exactly one source entry, of kind
\* "news", with the normalised link of its candidate as address and the
\* candidate's title as text; its urgency is MEDIUM and its status ACTIVE; its
\* type is the category of its title, one of the closed enumeration.
C24_EventShape ==
    (fn.op = "scrape" /\ fn.done) =>
        LET kept == Kept(fn.html)
        IN  /\ Len(fn.out) = Len(kept)
            /\ \A k \in DOMAIN fn.out :
                  LET event == fn.out[k]
                  IN  /\ event.title = TitleOf(kept[k])
                      /\ Len(event.sources) = 1
                      /\ event.sources[1].type = "news"
                      /\ event.sources[1].url = NormalizedLink(fn.url, kept[k].link_elem)
                      /\ event.sources[1].text = TitleOf(kept[k])
                      /\ event.urgency_level = "MEDIUM"
                      /\ event.status = "ACTIVE"
                      /\ event.event_type \in EventType
                      /\ event.event_type = ClassOf(TitleOf(kept[k]))

\* C24 witness: a page whose one candidate is titled "Major earthquake strikes
\* region" has given one event, of type EARTHQUAKE, urgency MEDIUM and status
\* ACTIVE, with its one source.
C24_Witness ==
    /\ fn.op = "scrape" /\ fn.done
    /\ Len(fn.html) = 1
    /\ Len(fn.out) = 1
    /\ fn.out[1].title =
          <<"M", "a", "j", "o", "r", " ", "e", "a", "r", "t", "h", "q", "u", "a", "k", "e", " ",
            "s", "t", "r", "i", "k", "e", "s", " ", "r", "e", "g", "i", "o", "n">>
    /\ fn.out[1].event_type = "EARTHQUAKE"
    /\ fn.out[1].urgency_level = "MEDIUM"
    /\ fn.out[1].status = "ACTIVE"
    /\ Len(fn.out[1].sources) = 1

\* The titles a pass is to give: for each source in the order of the catalog,
\* none when its fetch failed, and otherwise those of the candidates kept from
\* its page.
RECURSIVE ExpectedTitles(_, _)
ExpectedTitles(fetches, i) ==
    IF i > Len(NEWS_SOURCES) THEN <<>>
    ELSE LET kept == IF fetches[i].outcome = "ok" THEN Kept(fetches[i].body) ELSE <<>>
         IN  [k \in DOMAIN kept |-> TitleOf(kept[k])] \o ExpectedTitles(fetches, i + 1)

\* C25: a pass over the sources returns, whatever the fetches come to: a
\* source whose fetch failed (another status than 200, a timeout, an error)
\* gives no event, and every other source gives its events, in the order of
\* the catalog.
C25_FetchFailureIsolated ==
    (fn.op = "collect" /\ fn.done) =>
        EventTitles(fn.out) = ExpectedTitles(fn.fetches, 1)

\* C25 witness: the second source answered with another status than 200 and a
\* page that holds a candidate, and the pass has returned the event of the
\* first source followed by that of the third.
C25_Witness ==
    /\ fn.op = "collect" /\ fn.done
    /\ fn.fetches[2].outcome = "status" /\ Kept(fn.fetches[2].body) # <<>>
    /\ fn.fetches[1].outcome = "ok" /\ fn.fetches[3].outcome = "ok"
    /\ Len(fn.out) = 2
    /\ fn.out[1].title = TitleOf(fn.fetches[1].body[1])
    /\ fn.out[2].title = TitleOf(fn.fetches[3].body[1])
    /\ fn.out[1].title # fn.out[2].title

\* C26: the events of a source are those of the candidates it keeps, one for
\* each and in the order of the document: a candidate without a title node or
\* a link node, or whose extraction raises, gives no event and takes none from
\* the candidates before and after it.
C26_CandidateErrorIsolated ==
    (fn.op = "scrape" /\ fn.done) =>
        LET kept == Kept(fn.html)
        IN  /\ EventTitles(fn.out) = [k \in DOMAIN kept |-> TitleOf(kept[k])]
            /\ \A k \in DOMAIN fn.out :
                  fn.out[k].sources[1].url = NormalizedLink(fn.url, kept[k].link_elem)
            /\ (\A k \in DOMAIN fn.html : ~HasNodes(fn.html[k])) => fn.out = <<>>

\* C26 witness: the extraction of the first candidate of a page raised, and
\* the page has given the event of its second candidate.
C26_Witness ==
    /\ fn.op = "scrape" /\ fn.done
    /\ Len(fn.html) = 2
    /\ fn.html[1].broken
    /\ Len(fn.out) = 1
    /\ fn.out[1].title = TitleOf(fn.html[2])
    /\ fn.out[1].title # TitleOf(fn.html[1])

\* How many events the collect_all call that returns in this step of task t
\* returns: those it had gathered before, and those the step adds to the count.
ReturnedCount(t) == Len(tasks[t].all_events) + (collection_count' - collection_count)

C27_StatsOnlyInCollectAll ==
    [][/\ collection_count' >= collection_count
       /\ (last_run' # last_run \/ collection_count' # collection_count) =>
             /\ calls' = calls
             /\ stop' = stop
             /\ validation' = validation
             /\ collectors' = collectors
             /\ \A t \in TaskIds :
                   tasks'[t] # tasks[t] => tasks[t].pc \in {"render", "close"}]_vars

\* C27 witness: events have been counted and a last-run time set, and since
\* then or before the calls from outside have been made and a cleanup() has
\* run to its end.
C27_Witness ==
    /\ collection_count > 0
    /\ last_run # NoTime
    /\ calls = MaxCalls
    /\ stop.pc = "idle" /\ stop.visited # <<>>
    /\ ~is_running

\* The step is one of task t, inside the collect() of collector c, and in it
\* the open session of c is closed or dropped.
ClosesSession(t, c) ==
    /\ tasks[t].pc \in InCycle
    /\ collectors[tasks[t].cidx] = c
    /\ tasks'[t] # tasks[t]
    /\ session[c] = "open"
    /\ session'[c] # "open"

\* C28: no collect() closes the session of its collector while the fetch of
\* another collect() on the same collector is in flight on it.
C28_SessionNotClosedUnderUse ==
    [][\A t, u \in TaskIds : \A c \in CollectorIds :
         (t # u /\ ClosesSession(t, c)) =>
            ~(tasks[u].pc = "fetch" /\ collectors[tasks[u].cidx] = c)]_vars

\* C29: of the loop tasks start_collection creates, at most one is created
\* from one release of the service's task by stop_collection to the next,
\* however many calls are made and however the suspended calls resume: a task
\* is created only when the one created before has ended; and a call made
\* while the service is running creates no task and is not suspended.
C29_OneTaskPerStart ==
    [][/\ starts'.created <= 1
       /\ (tasks'["svc"].pc = "ready" /\ tasks["svc"].pc # "ready") =>
             tasks["svc"].pc \in {"none"} \cup Finished
       /\ (svc_running /\ calls' # calls) =>
             /\ starts'.pending = starts.pending
             /\ starts'.created <= starts.created
             /\ tasks'["svc"].pc # "ready"]_vars

\* C29 witness: after a stop, of two start_collection calls suspended together
\* or one after the other, one has created the loop task and another has
\* found it held and created none; the service is running with its one task.
C29_Witness ==
    /\ starts.created = 1
    /\ starts.held
    /\ starts.pending = 0
    /\ svc_running /\ svc_task
    /\ tasks["svc"].pc \in InCycle \cup Waiting

\* C30: once the shutdown handler of the application has run, the service is
\* not running, the running flag of the manager is cleared, the service holds
\* no loop task and the one it held has ended, and no collector holds a
\* session.
C30_ShutdownStopsService ==
    app = "down" =>
        /\ ~svc_running
        /\ ~is_running
        /\ ~svc_task
        /\ tasks["svc"].pc \in {"none"} \cup Finished
        /\ \A c \in DOMAIN session : session[c] = "none"

\* The collectors a collect_all call has invoked so far, in order.
Invoked(t) == [i \in DOMAIN tasks[t].rets |-> tasks[t].rets[i].c]

\* C31: a register_collector call with a BaseDataCollector appends it to the
\* end of the list and raises nothing; with another object it raises
\* ValueError and leaves the list as it was.  No step removes or reorders the
\* collectors registered before it.  A collect_all that is at work after the
\* registration invokes the new collector too: a task inside a collect() is
\* inside that of a registered collector, having invoked those before it in
\* order, and a collect_all that returns to collect_events has invoked every
\* collector of the list.
C31_RegisterAppends ==
    [][/\ Len(collectors') >= Len(collectors)
       /\ SubSeq(collectors', 1, Len(collectors)) = collectors
       /\ collectors' # collectors =>
             /\ IsBaseDataCollector(registration'.collector)
             /\ registration'.raised = "none"
             /\ collectors' = Append(collectors, registration'.collector)
             /\ calls' = calls + 1
       /\ registration' # registration =>
             /\ calls' = calls + 1
             /\ IF IsBaseDataCollector(registration'.collector)
                THEN /\ registration'.raised = "none"
                     /\ collectors' = Append(collectors, registration'.collector)
                ELSE /\ registration'.raised = "ValueError"
                     /\ collectors' = collectors
       /\ \A t \in TaskIds :
             /\ tasks'[t].pc \in InCycle =>
                   /\ tasks'[t].cidx \in 1..Len(collectors')
                   /\ \A i \in 1..(tasks'[t].cidx - 1) :
                         tasks'[t].rets[i].c = collectors'[i]
             /\ (tasks'[t].kind = "request" /\ CollectAllReturns(t)) =>
                   /\ Len(tasks'[t].rets) = Len(collectors')
                   /\ \A i \in 1..Len(collectors') : tasks'[t].rets[i].c = collectors'[i]]_vars

\* C31 witness: a second collector was registered, a later call with an
\* object of another class raised ValueError, both collectors are in the list
\* in the order of their registration, and a loop's collect_all is inside the
\* collect() of the new collector after having invoked the first.
C31_Witness ==
    /\ collectors = <<1, 2>>
    /\ registration = [collector |-> NotACollector, raised |-> "ValueError"]
    /\ \E t \in TaskIds :
         /\ tasks[t].kind = "loop"
         /\ tasks[t].pc \in InCycle
         /\ tasks[t].cidx = 2
         /\ Invoked(t) = <<1>>

====
